---- MODULE Spec2Model ----
(***************************************************************************)
(* Model of the feedback-document renderer of backend/app.py: font         *)
(* resolution (_ensure_pdf_font), the style registry (_build_pdf_styles),  *)
(* the inline and block renderers (_inline_markup, _wrap_inline,           *)
(* _element_to_flowables), the assembler (_create_estimation_pdf), the     *)
(* export request (export_estimation_result) and append_message of         *)
(* backend/storage.py.                                                     *)
(* Python strings are sequences of one-character strings, so that          *)
(* escaping, trimming and counting are computed as the code computes them. *)
(***************************************************************************)
EXTENDS Integers, Sequences, FiniteSets, TLC

VARIABLES
    registry,   \* pdfmetrics' registered font names (process-wide)
    regCount,   \* per font name: how many registerFont calls succeeded
    fs,         \* <<variant, directory>> -> state of the candidate file
    pc,         \* per caller: position in _ensure_pdf_font / its caller
    entry,      \* per caller: the registry as it was when the call began
    snap,       \* per caller: the local set `registered`
    vi,         \* per caller: index into PDF_FONT_VARIANTS
    di,         \* per caller: index into PDF_FONT_SEARCH_DIRS
    result,     \* per caller: the font name returned
    styles,     \* per caller: the style map built from the font name
    inode,      \* InlineRenderer: the node handed to _inline_markup
    imarkup,    \* InlineRenderer: the markup string returned
    ipc,        \* InlineRenderer: "off", "call" or "done"
    elem,       \* BlockRenderer: the element handed to _element_to_flowables
    bfont,      \* BlockRenderer: the font name argument
    flowables,  \* BlockRenderer: the list of flowables returned
    bpc,        \* BlockRenderer: "off", "call" or "done"
    score,      \* assembler: the score argument (<<>> is None, <<s>> a string)
    feedback,   \* assembler: the feedback text and what the parser makes of it
    font,       \* assembler: the font name _ensure_pdf_font returned
    story,      \* assembler: the story handed to doc.build
    apc,        \* assembler: "off", "call" or "built"
    request,    \* export request: the request body
    response,   \* export request: the response sent
    epc,        \* export request: position in export_estimation_result
    disk,       \* conversation store: the conversation's file
    conv,       \* per caller: the conversation dict append_message holds
    lock,       \* conversation store: who holds _store_lock (0: nobody)
    spc,        \* per caller: position in append_message
    returned    \* per caller: the turns append_message has returned

fontVars == <<registry, regCount, fs, pc, entry, snap, vi, di, result, styles>>

inlineVars == <<inode, imarkup, ipc>>

blockVars == <<elem, bfont, flowables, bpc>>

asmVars == <<score, feedback, font, story, apc>>

exportVars == <<request, response, epc>>

storeVars == <<disk, conv, lock, spc, returned>>

vars == <<fontVars, inlineVars, blockVars, asmVars, exportVars, storeVars>>


(***************************************************************************)
(* Python strings, as sequences of characters                              *)
(***************************************************************************)

RECURSIVE Join(_)
\* "".join(parts)
Join(parts) ==
    IF parts = <<>> THEN <<>> ELSE Head(parts) \o Join(Tail(parts))

RECURSIVE Replace(_, _, _)
\* text.replace(c, r) for a one-character c
Replace(text, c, r) ==
    IF text = <<>> THEN <<>>
    ELSE (IF Head(text) = c THEN r ELSE <<Head(text)>>) \o Replace(Tail(text), c, r)

AMP == <<"&", "a", "m", "p", ";">>

LT == <<"&", "l", "t", ";">>

GT == <<"&", "g", "t", ";">>

\* The replacements in another order: "<" and ">" first, "&" last, which
\* escapes the "&" of the entities just written.
EscapeXml_ampLast(text) ==
    Replace(Replace(Replace(text, "<", LT), ">", GT), "&", AMP)

\* _escape_xml: "&" first, then "<", then ">".
EscapeXml(text) ==
    Replace(Replace(Replace(text, "&", AMP), "<", LT), ">", GT)

Whitespace == {" ", "\n", "\t"}

RECURSIVE LStripOf(_, _)
LStripOf(text, chars) ==
    IF text # <<>> /\ Head(text) \in chars THEN LStripOf(Tail(text), chars) ELSE text

RECURSIVE RStripOf(_, _)
RStripOf(text, chars) ==
    IF text # <<>> /\ text[Len(text)] \in chars
      THEN RStripOf(SubSeq(text, 1, Len(text) - 1), chars)
      ELSE text

\* str.strip(), str.rstrip() and str.strip(chars)
Strip(text) == RStripOf(LStripOf(text, Whitespace), Whitespace)

RStrip(text) == RStripOf(text, Whitespace)

StripOf(text, chars) == RStripOf(LStripOf(text, chars), chars)

StartsWith(text, prefix) ==
    Len(text) >= Len(prefix) /\ SubSeq(text, 1, Len(prefix)) = prefix

EndsWith(text, suffix) ==
    /\ Len(text) >= Len(suffix)
    /\ SubSeq(text, Len(text) - Len(suffix) + 1, Len(text)) = suffix

RECURSIVE Count(_, _)
\* str.count(sub): occurrences that do not overlap, from the left
Count(text, sub) ==
    IF Len(text) < Len(sub) THEN 0
    ELSE IF StartsWith(text, sub)
      THEN 1 + Count(SubSeq(text, Len(sub) + 1, Len(text)), sub)
      ELSE Count(Tail(text), sub)

(***************************************************************************)
(* xml.etree elements                                                      *)
(***************************************************************************)

\* An Element: tag, attributes, leading text, children, tail text.  A text
\* or tail of None and an empty one are both <<>>: the code tests them for
\* truth only.
Node(tag, attrib, text, kids, tail) ==
    [tag |-> tag, attrib |-> attrib, text |-> text, kids |-> kids, tail |-> tail]

NoAttrib == <<>>

Attr(k, v) == [x \in {k} |-> v]

HasAttr(node, k) == k \in DOMAIN node.attrib

\* tag.lower(), over the tags the model draws
Lower(tag) ==
    CASE tag = "B" -> "b"
      [] tag = "P" -> "p"
      [] tag = "OL" -> "ol"
      [] tag = "LI" -> "li"
      [] OTHER -> tag

RECURSIVE IterText(_)
RECURSIVE IterTextKids(_)
\* list(node.itertext()): the text fragments of the node and its
\* descendants in document order, each child's tail after the child
IterText(node) ==
    (IF node.text # <<>> THEN <<node.text>> ELSE <<>>) \o IterTextKids(node.kids)

IterTextKids(kids) ==
    IF kids = <<>> THEN <<>>
    ELSE IterText(Head(kids))
           \o (IF Head(kids).tail # <<>> THEN <<Head(kids).tail>> ELSE <<>>)
           \o IterTextKids(Tail(kids))

(***************************************************************************)
(* InlineRenderer                                                          *)
(***************************************************************************)

B_OPEN == <<"<", "b", ">">>

B_CLOSE == <<"<", "/", "b", ">">>

I_OPEN == <<"<", "i", ">">>

I_CLOSE == <<"<", "/", "i", ">">>

SUB_OPEN == <<"<", "s", "u", "b", ">">>

SUB_CLOSE == <<"<", "/", "s", "u", "b", ">">>

SUP_OPEN == <<"<", "s", "u", "p", ">">>

SUP_CLOSE == <<"<", "/", "s", "u", "p", ">">>

FONT_OPEN ==
    <<"<", "f", "o", "n", "t", " ", "n", "a", "m", "e", "=", "'",
      "C", "o", "u", "r", "i", "e", "r", "'", ">">>

FONT_CLOSE == <<"<", "/", "f", "o", "n", "t", ">">>

BR == <<"<", "b", "r", "/", ">">>

RECURSIVE InlineMarkup(_)
RECURSIVE InlineKids(_)
RECURSIVE WrapInline(_)

\* _wrap_inline, tag "a": the inner markup, then the href in parentheses
\* when there is one
LinkMarkup(node) ==
    IF HasAttr(node, "href") /\ node.attrib["href"] # <<>>
      THEN InlineMarkup(node) \o <<" ", "(">> \o EscapeXml(node.attrib["href"]) \o <<")">>
      ELSE InlineMarkup(node)

\* A code span whose nested tags are rendered as inline markup.
CodeMarkup_nested(node) == FONT_OPEN \o InlineMarkup(node) \o FONT_CLOSE

\* _wrap_inline, tag "code": the descendant text, escaped, in Courier
CodeMarkup(node) == FONT_OPEN \o EscapeXml(Join(IterText(node))) \o FONT_CLOSE

\* _wrap_inline, tags "strong" and "b"
BoldMarkup(node) == B_OPEN \o InlineMarkup(node) \o B_CLOSE

\* _inline_markup
InlineMarkup(node) ==
    (IF node.text # <<>> THEN EscapeXml(node.text) ELSE <<>>) \o InlineKids(node.kids)

\* _inline_markup, the loop over the children
InlineKids(kids) ==
    IF kids = <<>> THEN <<>>
    ELSE WrapInline(Head(kids))
           \o (IF Head(kids).tail # <<>> THEN EscapeXml(Head(kids).tail) ELSE <<>>)
           \o InlineKids(Tail(kids))

\* _wrap_inline
WrapInline(node) ==
    LET tag == Lower(node.tag) IN
    CASE tag \in {"strong", "b"} -> BoldMarkup(node)
      [] tag \in {"em", "i"} -> I_OPEN \o InlineMarkup(node) \o I_CLOSE
      [] tag = "code" -> CodeMarkup(node)
      [] tag = "br" -> BR
      [] tag = "a" -> LinkMarkup(node)
      [] tag = "sub" -> SUB_OPEN \o InlineMarkup(node) \o SUB_CLOSE
      [] tag = "sup" -> SUP_OPEN \o InlineMarkup(node) \o SUP_CLOSE
      [] OTHER -> InlineMarkup(node)

(***************************************************************************)
(* Font resolution                                                         *)
(***************************************************************************)

PDF_FONT_NAME == "ExportSans"

FALLBACK_FONT == "Helvetica"

PDF_FONT_VARIANTS ==
    << [name |-> "ExportSans",            file |-> "LiberationSans-Regular.ttf"],
       [name |-> "ExportSans-Bold",       file |-> "LiberationSans-Bold.ttf"],
       [name |-> "ExportSans-Italic",     file |-> "LiberationSans-Italic.ttf"],
       [name |-> "ExportSans-BoldItalic", file |-> "LiberationSans-BoldItalic.ttf"] >>

PDF_FONT_SEARCH_DIRS ==
    << "/usr/share/fonts/liberation-fonts",
       "/usr/share/fonts/truetype/liberation",
       "/usr/share/fonts" >>

NumVariants == Len(PDF_FONT_VARIANTS)

NumDirs == Len(PDF_FONT_SEARCH_DIRS)

FontNames == { PDF_FONT_VARIANTS[i].name : i \in 1..NumVariants }

Candidates == (1..NumVariants) \X (1..NumDirs)

\* Number of concurrent callers of _ensure_pdf_font in the threaded server.
NumCallers == 2

Callers == 1..NumCallers

\* A candidate file is absent, present but not loadable, or loadable.  The
\* file system is an input: a candidate's state is fixed the first time a
\* caller looks at it ("unknown" until then) for as long as calls are in
\* progress.
FileStates == {"absent", "bad", "ok"}

\* `except Exception` around registerFont(TTFont(...)): every failure of the
\* load is caught.
ExceptionCaught == TRUE

\* The inner `for directory` loop after the candidate at <<v, d>> failed or
\* was absent: the next directory, or the next variant after the last one.
AfterMiss_stay(v, d) == [v |-> v + 1, d |-> 1]

AfterMiss(v, d) ==
    IF d < NumDirs THEN [v |-> v, d |-> d + 1] ELSE [v |-> v + 1, d |-> 1]

\* Lines 85-89: the value returned at the end of the scan.
ScanResult(reg) ==
    IF PDF_FONT_NAME \in reg THEN PDF_FONT_NAME ELSE FALLBACK_FONT

(***************************************************************************)
(* Style registry                                                          *)
(***************************************************************************)

StyleRoles ==
    {"Body", "Heading1", "Heading2", "Heading3", "Meta", "ListBody",
     "BlockQuote", "Code"}

\* reportlab's sample style sheet, as far as _build_pdf_styles reads it.
BaseStyles ==
    [ BodyText |->
        [fontName |-> "Helvetica", fontSize |-> 10, leading |-> 12,
         leftIndent |-> 0, rightIndent |-> 0, firstLineIndent |-> 0,
         spaceBefore |-> 6, spaceAfter |-> 0,
         textColor |-> "black", backColor |-> "none"],
      Heading1 |->
        [fontName |-> "Helvetica-Bold", fontSize |-> 18, leading |-> 22,
         leftIndent |-> 0, rightIndent |-> 0, firstLineIndent |-> 0,
         spaceBefore |-> 0, spaceAfter |-> 6,
         textColor |-> "black", backColor |-> "none"],
      Heading2 |->
        [fontName |-> "Helvetica-Bold", fontSize |-> 14, leading |-> 18,
         leftIndent |-> 0, rightIndent |-> 0, firstLineIndent |-> 0,
         spaceBefore |-> 12, spaceAfter |-> 6,
         textColor |-> "black", backColor |-> "none"],
      Heading3 |->
        [fontName |-> "Helvetica-BoldOblique", fontSize |-> 12, leading |-> 14,
         leftIndent |-> 0, rightIndent |-> 0, firstLineIndent |-> 0,
         spaceBefore |-> 12, spaceAfter |-> 6,
         textColor |-> "black", backColor |-> "none"] ]

\* ParagraphStyle(name, parent=..., **overrides): the parent's attributes,
\* copied, with the named ones replaced.
ParagraphStyle(name, parent, overrides) ==
    [k \in DOMAIN parent \cup {"name"} |->
        IF k = "name" THEN name
        ELSE IF k \in DOMAIN overrides THEN overrides[k]
        ELSE parent[k]]

BodyStyle(font_name) ==
    ParagraphStyle("Body", BaseStyles.BodyText,
        [fontName |-> font_name, fontSize |-> 11, leading |-> 14, spaceAfter |-> 6])

\* The code style without its own font: it would inherit the body font.
CodeStyle_inherits(font_name) ==
    ParagraphStyle("Code", BodyStyle(font_name),
        [fontSize |-> 10, leading |-> 12,
         backColor |-> "whitesmoke", leftIndent |-> 6, rightIndent |-> 6,
         spaceBefore |-> 4, spaceAfter |-> 8])

CodeStyle(font_name) ==
    ParagraphStyle("Code", BodyStyle(font_name),
        [fontName |-> "Courier", fontSize |-> 10, leading |-> 12,
         backColor |-> "whitesmoke", leftIndent |-> 6, rightIndent |-> 6,
         spaceBefore |-> 4, spaceAfter |-> 8])

MetaStyle(font_name) ==
    ParagraphStyle("Meta", BodyStyle(font_name),
        [textColor |-> "grey", spaceAfter |-> 4])

BuildPdfStyles(font_name) ==
    [ Body |-> BodyStyle(font_name),
      Heading1 |->
        ParagraphStyle("Heading1", BaseStyles.Heading1,
            [fontName |-> font_name, fontSize |-> 18, leading |-> 22,
             spaceAfter |-> 12]),
      Heading2 |->
        ParagraphStyle("Heading2", BaseStyles.Heading2,
            [fontName |-> font_name, fontSize |-> 14, leading |-> 18,
             spaceAfter |-> 8]),
      Heading3 |->
        ParagraphStyle("Heading3", BaseStyles.Heading3,
            [fontName |-> font_name, fontSize |-> 12, leading |-> 16,
             spaceAfter |-> 6]),
      Meta |-> MetaStyle(font_name),
      ListBody |->
        ParagraphStyle("ListBody", BodyStyle(font_name),
            [leftIndent |-> 0, firstLineIndent |-> 0, spaceAfter |-> 2]),
      BlockQuote |->
        ParagraphStyle("BlockQuote", BodyStyle(font_name),
            [leftIndent |-> 12, textColor |-> "darkgray", spaceBefore |-> 4,
             spaceAfter |-> 6]),
      Code |-> CodeStyle(font_name) ]

NoStyles == [r \in {} |-> r]

(***************************************************************************)
(* BlockRenderer                                                           *)
(***************************************************************************)

RECURSIVE JoinWith(_, _)
\* sep.join(parts)
JoinWith(sep, parts) ==
    IF parts = <<>> THEN <<>>
    ELSE IF Len(parts) = 1 THEN Head(parts)
    ELSE Head(parts) \o sep \o JoinWith(sep, Tail(parts))

Digits == {"0", "1", "2", "3", "4", "5", "6", "7", "8", "9"}

DigitValue(c) ==
    CASE c = "0" -> 0 [] c = "1" -> 1 [] c = "2" -> 2 [] c = "3" -> 3
      [] c = "4" -> 4 [] c = "5" -> 5 [] c = "6" -> 6 [] c = "7" -> 7
      [] c = "8" -> 8 [] c = "9" -> 9

\* The digits of an int() literal after the sign: digits, single
\* underscores allowed between them.
IsDigits(b) ==
    /\ b # <<>>
    /\ \A i \in 1..Len(b) : b[i] \in Digits \cup {"_"}
    /\ b[1] # "_"
    /\ b[Len(b)] # "_"
    /\ \A i \in 1..(Len(b) - 1) : ~(b[i] = "_" /\ b[i + 1] = "_")

RECURSIVE DigitsValue(_, _)
DigitsValue(b, acc) ==
    IF b = <<>> THEN acc
    ELSE IF Head(b) = "_" THEN DigitsValue(Tail(b), acc)
    ELSE DigitsValue(Tail(b), 10 * acc + DigitValue(Head(b)))

Unsigned(text) ==
    IF text # <<>> /\ Head(text) \in {"+", "-"} THEN Tail(text) ELSE text

\* int(text) succeeds: surrounding whitespace, an optional sign, digits.
IsInt(text) == IsDigits(Unsigned(Strip(text)))

\* int(text), when it succeeds
IntValue(text) ==
    LET t == Strip(text)
        n == DigitsValue(Unsigned(t), 0)
    IN IF Head(t) = "-" THEN 0 - n ELSE n

Paragraph(text, style) == [kind |-> "Paragraph", text |-> text, style |-> style]

Spacer(width, height) == [kind |-> "Spacer", width |-> width, height |-> height]

Preformatted(text, style) == [kind |-> "Preformatted", text |-> text, style |-> style]

ListItem(flowable) == [kind |-> "ListItem", flowable |-> flowable]

ListFlowable(items, bulletType, bulletFontName, bulletChar, start) ==
    [kind |-> "ListFlowable", items |-> items, bulletType |-> bulletType,
     bulletFontName |-> bulletFontName, bulletFontSize |-> 11,
     bulletChar |-> bulletChar, leftIndent |-> 12, start |-> start]

SelectKids(node, tag) == SelectSeq(node.kids, LAMBDA k : k.tag = tag)

RECURSIVE MapItems(_, _)
MapItems(lis, st) ==
    IF lis = <<>> THEN <<>>
    ELSE LET text == Strip(InlineMarkup(Head(lis)))
         IN (IF text = <<>> THEN <<>> ELSE <<ListItem(Paragraph(text, st["ListBody"]))>>)
              \o MapItems(Tail(lis), st)

RECURSIVE MapItems_unstripped(_, _)
MapItems_unstripped(lis, st) ==
    IF lis = <<>> THEN <<>>
    ELSE LET text == InlineMarkup(Head(lis))
         IN (IF text = <<>> THEN <<>> ELSE <<ListItem(Paragraph(text, st["ListBody"]))>>)
              \o MapItems_unstripped(Tail(lis), st)

\* The items kept without trimming: a blank item stays.
ListItemsFromElements_unstripped(lis, st) == MapItems_unstripped(lis, st)

\* _list_items_from_elements
ListItemsFromElements(lis, st) == MapItems(lis, st)

\* `except ValueError` around int(start)
ValueErrorCaught == TRUE

\* The start number with int() failures turned into 0 instead of 1.
ListStart_zero(element, tag) ==
    LET start == IF HasAttr(element, "start") /\ element.attrib["start"] # <<>>
                   THEN element.attrib["start"] ELSE <<"1">>
    IN IF tag = "ol"
         THEN (IF IsInt(start) THEN <<IntValue(start)>> ELSE <<0>>)
         ELSE <<>>

\* Lines 253-257: the start number of the list, <<>> for None
ListStart(element, tag) ==
    LET start == IF HasAttr(element, "start") /\ element.attrib["start"] # <<>>
                   THEN element.attrib["start"] ELSE <<"1">>
    IN IF tag = "ol"
         THEN (IF IsInt(start) THEN <<IntValue(start)>> ELSE <<1>>)
         ELSE <<>>

\* Lines 248-270: tags ul and ol
ListFlowables(element, tag, st, font_name) ==
    LET items == ListItemsFromElements(SelectKids(element, "li"), st)
    IN IF items = <<>> THEN <<>>
       ELSE << ListFlowable(items,
                            IF tag = "ul" THEN "bullet" ELSE "1",
                            font_name,
                            IF tag = "ul" THEN "bullet-char" ELSE "None",
                            ListStart(element, tag)),
               Spacer(1, 6) >>

TWO_DOLLARS == <<"$", "$">>

\* The formula test without the count of delimiters.
IsFormula_noCount(raw_text) ==
    StartsWith(raw_text, TWO_DOLLARS) /\ EndsWith(raw_text, TWO_DOLLARS)

\* Line 233
IsFormula(raw_text) ==
    /\ StartsWith(raw_text, TWO_DOLLARS)
    /\ EndsWith(raw_text, TWO_DOLLARS)
    /\ Count(raw_text, TWO_DOLLARS) >= 2

\* The paragraph rule testing the raw text, not the markup, for emptiness.
ParagraphFlowables_rawTest(element, st) ==
    LET raw_text == Strip(Join(IterText(element)))
        markup == Strip(InlineMarkup(element))
    IN IF raw_text = <<>> THEN <<Spacer(1, 6)>>
       ELSE IF IsFormula(raw_text) THEN <<Preformatted(raw_text, st["Code"])>>
       ELSE <<Paragraph(markup, st["Body"])>>

\* Lines 228-237: tags p, span and div
ParagraphFlowables(element, st) ==
    LET raw_text == Strip(Join(IterText(element)))
        markup == Strip(InlineMarkup(element))
    IN IF markup = <<>> THEN <<Spacer(1, 6)>>
       ELSE IF IsFormula(raw_text) THEN <<Preformatted(raw_text, st["Code"])>>
       ELSE <<Paragraph(markup, st["Body"])>>

\* Lines 239-246: tags h1, h2 and h3
HeadingFlowables(element, tag, st) ==
    LET heading_style ==
          CASE tag = "h1" -> st["Heading1"]
            [] tag = "h2" -> st["Heading2"]
            [] tag = "h3" -> IF "Heading3" \in DOMAIN st THEN st["Heading3"]
                             ELSE st["Heading2"]
    IN <<Paragraph(InlineMarkup(element), heading_style)>>

RECURSIVE MapRStrip(_)
MapRStrip(parts) ==
    IF parts = <<>> THEN <<>> ELSE <<RStrip(Head(parts))>> \o MapRStrip(Tail(parts))

\* Lines 272-275: tag pre
PreFlowables(element, st) ==
    LET code_text == StripOf(JoinWith(<<"\n">>, MapRStrip(IterText(element))), {"\n"})
    IN <<Preformatted(IF code_text = <<>> THEN <<" ">> ELSE code_text, st["Code"])>>

RECURSIVE MapCells(_)
MapCells(tds) ==
    IF tds = <<>> THEN <<>>
    ELSE <<Strip(JoinWith(<<" ">>, IterText(Head(tds))))>> \o MapCells(Tail(tds))

RECURSIVE MapRows(_)
MapRows(trs) ==
    IF trs = <<>> THEN <<>>
    ELSE <<JoinWith(<<" ", "|", " ">>,
                    SelectSeq(MapCells(Head(trs).kids), LAMBDA c : c # <<>>))>>
           \o MapRows(Tail(trs))

RECURSIVE MapRowParagraphs(_, _)
MapRowParagraphs(rows, st) ==
    IF rows = <<>> THEN <<>>
    ELSE (IF Head(rows) # <<>> THEN <<Paragraph(EscapeXml(Head(rows)), st["Body"])>>
          ELSE <<>>)
           \o MapRowParagraphs(Tail(rows), st)

\* Lines 289-299: tag table
TableFlowables(element, st) ==
    LET rows == MapRows(SelectKids(element, "tr"))
    IN MapRowParagraphs(rows, st)
         \o (IF rows # <<>> THEN <<Spacer(1, 6)>> ELSE <<>>)

\* _element_to_flowables
ElementToFlowables(element, st, font_name) ==
    LET tag == Lower(element.tag) IN
    CASE tag \in {"p", "span", "div"} -> ParagraphFlowables(element, st)
      [] tag \in {"h1", "h2", "h3"} -> HeadingFlowables(element, tag, st)
      [] tag \in {"ul", "ol"} -> ListFlowables(element, tag, st, font_name)
      [] tag = "pre" -> PreFlowables(element, st)
      [] tag = "code" -> <<Preformatted(Join(IterText(element)), st["Code"])>>
      [] tag = "blockquote" ->
           LET markup == Strip(InlineMarkup(element))
           IN IF markup # <<>>
                THEN <<Paragraph(markup, st["BlockQuote"]), Spacer(1, 4)>>
                ELSE <<>>
      [] tag = "table" -> TableFlowables(element, st)
      [] OTHER ->
           LET markup == Strip(InlineMarkup(element))
           IN IF markup # <<>> THEN <<Paragraph(markup, st["Body"])>>
              ELSE <<Spacer(1, 4)>>

\* _element_to_flowables raises: int(start) fails for an ol with items and
\* the ValueError is not caught.
ElementRaises(element) ==
    /\ Lower(element.tag) = "ol"
    /\ ListItemsFromElements(SelectKids(element, "li"), BuildPdfStyles("")) # <<>>
    /\ HasAttr(element, "start")
    /\ element.attrib["start"] # <<>>
    /\ ~IsInt(element.attrib["start"])
    /\ ~ValueErrorCaught

(***************************************************************************)
(* DocumentAssembler                                                       *)
(***************************************************************************)

\* The literals of _create_estimation_pdf, each held as one token (the
\* Cyrillic text of the source, transliterated).
TITLE_TEXT == <<"Rezultat otsenki">>

DATE_PREFIX == <<"Data: ">>

SCORE_PREFIX == <<"Otsenka: ">>

FEEDBACK_LABEL == <<"Obratnaya svyaz:">>

NO_FEEDBACK_TEXT == <<"Net obratnoy svyazi.">>

\* datetime.utcnow().strftime(...): one token, whatever the time is
TIMESTAMP == <<"%d.%m.%Y %H:%M:%S">>

\* `except ET.ParseError` around ET.fromstring
ParseErrorCaught == TRUE

\* The fallback paragraph holding the input as it came.
MalformedFallback_raw(text, st) == <<Paragraph(text, st["Body"])>>

\* Line 321: the input, escaped, as one Body paragraph
MalformedFallback(text, st) == <<Paragraph(EscapeXml(text), st["Body"])>>

RECURSIVE ChildFlowables(_, _, _)
\* Lines 323-326: the loop over the children of the root
ChildFlowables(children, st, font_name) ==
    IF children = <<>> THEN <<>>
    ELSE ElementToFlowables(Head(children), st, font_name)
           \o ChildFlowables(Tail(children), st, font_name)

\* _markdown_to_flowables.  The markup-to-tree parser is outside the
\* program: fb.doc says what it made of fb.text ("blank": the converted
\* markup is empty; "malformed": ET.fromstring raised ParseError; "tree":
\* fb.root holds the children of the root element).
MarkdownToFlowables(fb, st, font_name) ==
    CASE fb.doc = "blank" -> <<>>
      [] fb.doc = "malformed" -> MalformedFallback(fb.text, st)
      [] fb.doc = "tree" -> ChildFlowables(fb.root, st, font_name)

\* The score line written whenever a score is given, empty or not.
ScoreLine_anyScore(sc, st) ==
    IF sc # <<>>
      THEN <<Paragraph(SCORE_PREFIX \o B_OPEN \o EscapeXml(sc[1]) \o B_CLOSE, st["Meta"])>>
      ELSE <<>>

\* Lines 454-455: `if score:`; sc is <<>> for None and <<s>> for a string
ScoreLine(sc, st) ==
    IF sc # <<>> /\ sc[1] # <<>>
      THEN <<Paragraph(SCORE_PREFIX \o B_OPEN \o EscapeXml(sc[1]) \o B_CLOSE, st["Meta"])>>
      ELSE <<>>

\* _create_estimation_pdf, lines 437-465: the story handed to doc.build
EstimationStory(sc, fb, font_name) ==
    LET st == BuildPdfStyles(font_name)
        fl == MarkdownToFlowables(fb, st, font_name)
    IN << Paragraph(TITLE_TEXT, st["Heading1"]), Spacer(1, 10),
          Paragraph(DATE_PREFIX \o TIMESTAMP, st["Meta"]) >>
         \o ScoreLine(sc, st)
         \o << Spacer(1, 12), Paragraph(FEEDBACK_LABEL, st["Heading2"]), Spacer(1, 6) >>
         \o (IF fl # <<>> THEN fl ELSE <<Paragraph(NO_FEEDBACK_TEXT, st["Body"])>>)

(***************************************************************************)
(* _ensure_pdf_font, one step per candidate looked at                      *)
(***************************************************************************)

NoFiles == [c \in Candidates |-> "unknown"]

FontStart ==
    /\ registry = {}
    /\ regCount = [n \in FontNames |-> 0]
    /\ fs = NoFiles
    /\ pc = [t \in Callers |-> "idle"]
    /\ entry = [t \in Callers |-> {}]
    /\ snap = [t \in Callers |-> {}]
    /\ vi = [t \in Callers |-> 1]
    /\ di = [t \in Callers |-> 1]
    /\ result = [t \in Callers |-> ""]
    /\ styles = [t \in Callers |-> NoStyles]

NoNode == Node("", NoAttrib, <<>>, <<>>, <<>>)

\* The renderers at rest.
InlineOff == inode = NoNode /\ imarkup = <<>> /\ ipc = "off"

BlockOff == elem = NoNode /\ bfont = "" /\ flowables = <<>> /\ bpc = "off"

AsmOff ==
    /\ score = <<>>
    /\ feedback = [text |-> <<>>, doc |-> "blank", root |-> <<>>]
    /\ font = ""
    /\ story = <<>>
    /\ apc = "off"

\* No request body and no response yet.
NoBody == [kind |-> "none", fields |-> <<>>]

NoResponse == [status |-> 0, error |-> "", pdf |-> <<>>]

ExportOff == request = NoBody /\ response = NoResponse /\ epc = "off"

\* The conversation's file: whole with its messages, or cut to length zero
\* by an open("w") that has not written yet.
File(messages) == [state |-> "whole", messages |-> messages]

StoreOff ==
    /\ disk = File(<<>>)
    /\ conv = [t \in Callers |-> <<>>]
    /\ lock = 0
    /\ spc = [t \in Callers |-> "off"]
    /\ returned = [t \in Callers |-> <<>>]

FontInit == FontStart /\ InlineOff /\ BlockOff /\ AsmOff /\ ExportOff /\ StoreOff

\* Lines 68-70: snapshot the registry; return at once when the primary font
\* is in it.
EnsureStart(t) ==
    /\ pc[t] = "idle"
    /\ entry' = [entry EXCEPT ![t] = registry]
    /\ snap' = [snap EXCEPT ![t] = registry]
    /\ vi' = [vi EXCEPT ![t] = 1]
    /\ di' = [di EXCEPT ![t] = 1]
    /\ IF PDF_FONT_NAME \in registry
         THEN /\ result' = [result EXCEPT ![t] = PDF_FONT_NAME]
              /\ pc' = [pc EXCEPT ![t] = "resolved"]
         ELSE /\ result' = result
              /\ pc' = [pc EXCEPT ![t] = "scan"]
    /\ UNCHANGED <<registry, regCount, fs, styles>>
    /\ UNCHANGED <<inlineVars, blockVars, asmVars, exportVars, storeVars>>

\* Lines 73-74: a variant the snapshot holds is skipped.
SkipVariant(t) ==
    /\ pc[t] = "scan"
    /\ vi[t] <= NumVariants
    /\ PDF_FONT_VARIANTS[vi[t]].name \in snap[t]
    /\ vi' = [vi EXCEPT ![t] = vi[t] + 1]
    /\ di' = [di EXCEPT ![t] = 1]
    /\ UNCHANGED <<registry, regCount, fs, pc, entry, snap, result, styles>>
    /\ UNCHANGED <<inlineVars, blockVars, asmVars, exportVars, storeVars>>

\* Lines 75-83: one candidate: exists(), then TTFont + registerFont inside
\* the try.
Probe(t) ==
    /\ pc[t] = "scan"
    /\ vi[t] <= NumVariants
    /\ PDF_FONT_VARIANTS[vi[t]].name \notin snap[t]
    /\ LET c == <<vi[t], di[t]>>
           name == PDF_FONT_VARIANTS[vi[t]].name
           next == AfterMiss(vi[t], di[t])
       IN \E st \in FileStates :
            /\ fs[c] \in {"unknown", st}
            /\ fs' = [fs EXCEPT ![c] = st]
            /\ CASE st = "ok" ->
                      /\ registry' = registry \cup {name}
                      /\ regCount' = [regCount EXCEPT ![name] = @ + 1]
                      /\ snap' = [snap EXCEPT ![t] = @ \cup {name}]
                      /\ vi' = [vi EXCEPT ![t] = vi[t] + 1]
                      /\ di' = [di EXCEPT ![t] = 1]
                      /\ pc' = pc
                 [] st = "bad" /\ ~ExceptionCaught ->
                      /\ pc' = [pc EXCEPT ![t] = "raised"]
                      /\ UNCHANGED <<registry, regCount, snap, vi, di>>
                 [] OTHER ->
                      /\ vi' = [vi EXCEPT ![t] = next.v]
                      /\ di' = [di EXCEPT ![t] = next.d]
                      /\ UNCHANGED <<registry, regCount, snap, pc>>
    /\ UNCHANGED <<entry, result, styles>>
    /\ UNCHANGED <<inlineVars, blockVars, asmVars, exportVars, storeVars>>

\* Lines 85-89: after the loop, read the registry again and return.
EnsureFinish(t) ==
    /\ pc[t] = "scan"
    /\ vi[t] > NumVariants
    /\ result' = [result EXCEPT ![t] = ScanResult(registry)]
    /\ pc' = [pc EXCEPT ![t] = "resolved"]
    /\ UNCHANGED <<registry, regCount, fs, entry, snap, vi, di, styles>>
    /\ UNCHANGED <<inlineVars, blockVars, asmVars, exportVars, storeVars>>

\* _create_estimation_pdf, line 437: the styles are built from the font
\* name _ensure_pdf_font returned.
BuildStyles(t) ==
    /\ pc[t] = "resolved"
    /\ styles' = [styles EXCEPT ![t] = BuildPdfStyles(result[t])]
    /\ pc' = [pc EXCEPT ![t] = "styled"]
    /\ UNCHANGED <<registry, regCount, fs, entry, snap, vi, di, result>>
    /\ UNCHANGED <<inlineVars, blockVars, asmVars, exportVars, storeVars>>

\* The request ends; the caller's locals are gone, the registry stays.
EndCall(t) ==
    /\ pc[t] = "styled"
    /\ pc' = [pc EXCEPT ![t] = "idle"]
    /\ entry' = [entry EXCEPT ![t] = {}]
    /\ snap' = [snap EXCEPT ![t] = {}]
    /\ vi' = [vi EXCEPT ![t] = 1]
    /\ di' = [di EXCEPT ![t] = 1]
    /\ result' = [result EXCEPT ![t] = ""]
    /\ styles' = [styles EXCEPT ![t] = NoStyles]
    /\ UNCHANGED <<registry, regCount, fs>>
    /\ UNCHANGED <<inlineVars, blockVars, asmVars, exportVars, storeVars>>

\* Between calls the font files may be installed, removed or replaced: the
\* next call looks at the file system afresh.
FilesChange ==
    /\ \A t \in Callers : pc[t] = "idle"
    /\ fs # NoFiles
    /\ fs' = NoFiles
    /\ UNCHANGED <<registry, regCount, pc, entry, snap, vi, di, result, styles>>
    /\ UNCHANGED <<inlineVars, blockVars, asmVars, exportVars, storeVars>>

FontStep(t) ==
    \/ EnsureStart(t)
    \/ SkipVariant(t)
    \/ Probe(t)
    \/ EnsureFinish(t)
    \/ BuildStyles(t)
    \/ EndCall(t)

\* One caller at a time: calls of _ensure_pdf_font in sequence.
FontNext == FontStep(1) \/ FilesChange

SpecFont == FontInit /\ [][FontNext]_vars

\* Callers in the threads of the server, interleaved at every step, over a
\* file system that holds the files of some variants in one directory.
RaceFiles ==
    { [c \in Candidates |-> IF c[1] \in V /\ c[2] = d THEN "ok" ELSE "absent"] :
        V \in SUBSET (1..NumVariants), d \in 1..NumDirs }

RaceInit ==
    /\ registry = {}
    /\ regCount = [n \in FontNames |-> 0]
    /\ fs \in RaceFiles
    /\ pc = [t \in Callers |-> "idle"]
    /\ entry = [t \in Callers |-> {}]
    /\ snap = [t \in Callers |-> {}]
    /\ vi = [t \in Callers |-> 1]
    /\ di = [t \in Callers |-> 1]
    /\ result = [t \in Callers |-> ""]
    /\ styles = [t \in Callers |-> NoStyles]
    /\ InlineOff /\ BlockOff /\ AsmOff /\ ExportOff /\ StoreOff

RaceNext == \E t \in Callers : FontStep(t)

SpecFontRace == RaceInit /\ [][RaceNext]_vars

\* What the returned font name tells the caller: the fallback font comes
\* with the warning that it may lack non-Latin glyphs.
Capability(font_name) ==
    IF font_name = FALLBACK_FONT THEN "latin-only" ELSE "full"

(***************************************************************************)
(* Claims about font resolution and the style registry                     *)
(***************************************************************************)

Scanning(t, v) ==
    /\ pc[t] = "scan"
    /\ vi[t] = v
    /\ v <= NumVariants
    /\ PDF_FONT_VARIANTS[v].name \notin snap[t]

\* C4 (as claimed): under any interleaving of concurrent _ensure_pdf_font
\* calls no font variant is registered more than once, and no two callers
\* are in the scan-and-register step of the same variant at the same time.
C4_MutualExclusion ==
    /\ \A n \in FontNames : regCount[n] <= 1
    /\ \A t, u \in Callers : \A v \in 1..NumVariants :
         (Scanning(t, v) /\ Scanning(u, v)) => t = u

\* C5: _ensure_pdf_font never raises; a candidate that does not load counts
\* as not found and the scan goes on with the next directory, in order,
\* stopping at the first that loads; the call returns the primary font
\* exactly when the regular variant is registered at the end (it was so
\* before the call, or it loads from some directory), and the fallback font,
\* latin-only, otherwise.
C5_ResolveDegrades ==
    \A t \in Callers :
      /\ pc[t] # "raised"
      /\ \A v \in 1..NumVariants :
           Scanning(t, v) =>
             \A d \in 1..(di[t] - 1) : fs[<<v, d>>] \in {"absent", "bad"}
      /\ \A v \in 1..NumVariants :
           (pc[t] \in {"scan", "resolved", "styled"}
              /\ PDF_FONT_NAME \notin entry[t]
              /\ PDF_FONT_VARIANTS[v].name \notin entry[t]
              /\ (v < vi[t] \/ pc[t] # "scan")) =>
             \/ /\ PDF_FONT_VARIANTS[v].name \notin registry
                /\ \A d \in 1..NumDirs : fs[<<v, d>>] \in {"absent", "bad"}
             \/ /\ PDF_FONT_VARIANTS[v].name \in registry
                /\ \E d \in 1..NumDirs :
                     /\ fs[<<v, d>>] = "ok"
                     /\ \A e \in 1..(d - 1) : fs[<<v, e>>] \in {"absent", "bad"}
                     /\ \A e \in (d + 1)..NumDirs : fs[<<v, e>>] = "unknown"
      /\ pc[t] \in {"resolved", "styled"} =>
           /\ result[t] \in {PDF_FONT_NAME, FALLBACK_FONT}
           /\ result[t] = PDF_FONT_NAME <=> PDF_FONT_NAME \in registry
           /\ result[t] = PDF_FONT_NAME <=>
                (PDF_FONT_NAME \in entry[t]
                   \/ \E d \in 1..NumDirs : fs[<<1, d>>] = "ok")
           /\ result[t] # PDF_FONT_NAME =>
                (result[t] = FALLBACK_FONT /\ Capability(result[t]) = "latin-only")

\* C5's case: the regular file of the first directory does not load, the
\* one of the second does, and the call returned the primary font.
C5_Witness ==
    \E t \in Callers :
      /\ pc[t] = "resolved"
      /\ fs[<<1, 1>>] = "bad"
      /\ fs[<<1, 2>>] = "ok"
      /\ result[t] = PDF_FONT_NAME

NoFileFound == \A c \in Candidates : fs[c] = "absent"

\* C6 (as claimed): when no candidate font file is found in any search
\* directory the call returns the fallback font and all eight styles built
\* from it have the fallback font name as their font.
C6_AllEightFallback ==
    \A t \in Callers :
      (pc[t] = "styled" /\ NoFileFound) =>
        /\ result[t] = FALLBACK_FONT
        /\ \A r \in StyleRoles : styles[t][r].fontName = FALLBACK_FONT

\* C6 (amended): when the scan runs (the primary font is not registered
\* yet) and finds no candidate font file in any search directory, the call
\* returns the fallback font; the seven styles other than Code have the
\* fallback font name as their font and Code keeps its own font, Courier.
C6_FallbackStyles ==
    \A t \in Callers :
      (/\ pc[t] = "styled"
       /\ PDF_FONT_NAME \notin entry[t]
       /\ \A c \in Candidates : fs[c] \in {"absent", "unknown"}) =>
        /\ result[t] = FALLBACK_FONT
        /\ DOMAIN styles[t] = StyleRoles
        /\ \A r \in StyleRoles \ {"Code"} : styles[t][r].fontName = FALLBACK_FONT
        /\ styles[t]["Code"].fontName = "Courier"

C6_Witness ==
    \E t \in Callers :
      /\ pc[t] = "styled"
      /\ NoFileFound
      /\ result[t] = FALLBACK_FONT
      /\ styles[t]["Meta"].fontName = FALLBACK_FONT

(***************************************************************************)
(* InlineRenderer applied to inline node trees                             *)
(***************************************************************************)

\* How many children the node handed to _inline_markup has at most.
MaxInlineKids == 2

SeqsUpTo(S, n) == UNION { [1..k -> S] : k \in 0..n }

InlineTags ==
    {"strong", "b", "em", "i", "code", "br", "a", "sub", "sup", "u", "B"}

\* Every tag once, with reserved characters in its text and in its tail.
LeafKids ==
    { Node(t, NoAttrib, <<"&", "<">>, <<>>, <<">">>) : t \in InlineTags }

\* Links with an empty or a non-empty href, with and without text.
LinkKids ==
    { Node("a", Attr("href", h), x, <<>>, <<>>) :
        h \in {<<>>, <<"u", "&", "<">>}, x \in {<<>>, <<"a">>} }

\* Children of a nested node: their text looks like a tag, their tail like
\* an entity.
InnerKids ==
    { Node(t, NoAttrib, <<"<", "b", ">">>, <<>>, <<"&", "a", "m", "p", ";">>) :
        t \in {"em", "code", "br"} }

NestedKids ==
    { Node(o, NoAttrib, <<"a">>, <<k>>, <<>>) : o \in {"b", "code"}, k \in InnerKids }
      \cup { Node("a", Attr("href", <<">">>), <<>>, <<k>>, <<>>) : k \in InnerKids }

\* Code spans with bold, link, sub/superscript and line-break children.
CodeKids ==
    { Node("code", NoAttrib, <<"x">>,
           << Node("b", NoAttrib, <<"y">>, <<>>, <<"<">>),
              Node("a", Attr("href", <<"u">>), <<"w">>, <<>>, <<>>) >>, <<>>),
      Node("code", NoAttrib, <<>>,
           << Node("sub", NoAttrib, <<"1">>, <<>>, <<>>),
              Node("br", NoAttrib, <<>>, <<>>, <<>>),
              Node("sup", NoAttrib, <<"2">>, <<>>, <<"&">>) >>, <<>>) }

InlineKidSet == LeafKids \cup LinkKids \cup NestedKids \cup CodeKids

InlineInputs ==
    { Node("p", NoAttrib, x, ks, <<>>) :
        x \in {<<>>, <<"&">>}, ks \in SeqsUpTo(InlineKidSet, MaxInlineKids) }

InlineInit ==
    /\ inode \in InlineInputs
    /\ imarkup = <<>>
    /\ ipc = "call"
    /\ FontStart /\ BlockOff /\ AsmOff /\ ExportOff /\ StoreOff

RenderInline ==
    /\ ipc = "call"
    /\ imarkup' = InlineMarkup(inode)
    /\ ipc' = "done"
    /\ UNCHANGED <<inode, fontVars, blockVars, asmVars, exportVars, storeVars>>

SpecInline == InlineInit /\ [][RenderInline]_vars

\* The text a reader of the rendered markup is meant to see: the user's
\* text fragments and href values, unescaped, in output order.
RECURSIVE PlainContent(_)
RECURSIVE PlainKids(_)
PlainContent(node) == node.text \o PlainKids(node.kids)

PlainKids(kids) ==
    IF kids = <<>> THEN <<>>
    ELSE LET k == Head(kids)
             tag == Lower(k.tag)
             own == CASE tag = "br" -> <<>>
                      [] tag = "code" -> Join(IterText(k))
                      [] tag = "a" /\ HasAttr(k, "href") /\ k.attrib["href"] # <<>> ->
                           PlainContent(k) \o <<" ", "(">> \o k.attrib["href"] \o <<")">>
                      [] OTHER -> PlainContent(k)
         IN own \o k.tail \o PlainKids(Tail(kids))

Markers ==
    {B_OPEN, B_CLOSE, I_OPEN, I_CLOSE, SUB_OPEN, SUB_CLOSE, SUP_OPEN, SUP_CLOSE,
     FONT_OPEN, FONT_CLOSE, BR}

Entities == {[text |-> AMP, char |-> "&"], [text |-> LT, char |-> "<"],
             [text |-> GT, char |-> ">"]}

\* Reads markup as the layout engine does: wrap markers are dropped, each
\* entity is decoded once, and "RAW" marks a reserved character that is
\* neither part of a marker nor of an entity.
RECURSIVE DecodeMarkup(_)
DecodeMarkup(m) ==
    IF m = <<>> THEN <<>>
    ELSE IF Head(m) = "<" /\ \E k \in Markers : StartsWith(m, k)
      THEN LET k == CHOOSE k \in Markers : StartsWith(m, k)
           IN DecodeMarkup(SubSeq(m, Len(k) + 1, Len(m)))
    ELSE IF Head(m) = "&" /\ \E e \in Entities : StartsWith(m, e.text)
      THEN LET e == CHOOSE e \in Entities : StartsWith(m, e.text)
           IN <<e.char>> \o DecodeMarkup(SubSeq(m, Len(e.text) + 1, Len(m)))
    ELSE IF Head(m) \in {"&", "<", ">"}
      THEN <<"RAW">> \o DecodeMarkup(Tail(m))
    ELSE <<Head(m)>> \o DecodeMarkup(Tail(m))

\* C3: in the markup _inline_markup returns, every reserved character is
\* part of a wrap marker the renderer wrote or of an entity, and decoding
\* the entities once gives back exactly the user's text and href values:
\* each fragment was escaped once, no marker was escaped.
C3_EscapedOnce ==
    ipc = "done" => DecodeMarkup(imarkup) = PlainContent(inode)

\* C3's case: a node with a bold child holding "&<", a tail, and a link with
\* an href that holds reserved characters.
C3_Witness ==
    /\ ipc = "done"
    /\ Len(inode.kids) = 2
    /\ inode.kids[1].tag = "b"
    /\ inode.kids[1].text = <<"&", "<">>
    /\ inode.kids[2].tag = "a"
    /\ HasAttr(inode.kids[2], "href")
    /\ inode.kids[2].attrib["href"] = <<"u", "&", "<">>
    /\ imarkup = B_OPEN \o AMP \o LT \o B_CLOSE \o GT
                   \o <<" ", "(", "u">> \o AMP \o LT \o <<")">>

RECURSIVE CodeSpans(_)
\* The code spans among the descendants of the nodes given, outermost
\* only, in document order.
CodeSpans(kids) ==
    IF kids = <<>> THEN <<>>
    ELSE (IF Lower(Head(kids).tag) = "code" THEN <<Head(kids)>>
          ELSE CodeSpans(Head(kids).kids))
           \o CodeSpans(Tail(kids))

RECURSIVE UpTo(_, _)
\* The part of the markup before the first occurrence of a marker.
UpTo(m, marker) ==
    IF m = <<>> \/ StartsWith(m, marker) THEN <<>>
    ELSE <<Head(m)>> \o UpTo(Tail(m), marker)

RECURSIVE MonospaceBodies(_)
\* What the markup holds between each monospace opening marker and the
\* closing marker that follows it.
MonospaceBodies(m) ==
    IF m = <<>> THEN <<>>
    ELSE IF StartsWith(m, FONT_OPEN)
      THEN LET rest == SubSeq(m, Len(FONT_OPEN) + 1, Len(m))
               body == UpTo(rest, FONT_CLOSE)
           IN <<body>>
                \o MonospaceBodies(SubSeq(rest, Len(body) + Len(FONT_CLOSE) + 1, Len(rest)))
    ELSE MonospaceBodies(Tail(m))

\* Decoding each entity once, with no marker recognised.
RECURSIVE DecodeEntities(_)
DecodeEntities(m) ==
    IF m = <<>> THEN <<>>
    ELSE IF Head(m) = "&" /\ \E e \in Entities : StartsWith(m, e.text)
      THEN LET e == CHOOSE e \in Entities : StartsWith(m, e.text)
           IN <<e.char>> \o DecodeEntities(SubSeq(m, Len(e.text) + 1, Len(m)))
    ELSE <<Head(m)>> \o DecodeEntities(Tail(m))

\* C13: each code span, whatever is nested in it, comes out as one
\* monospace wrap around the escaped concatenation of its descendant text
\* in document order: there are as many wraps as code spans, no wrap holds
\* a marker of any kind, and each wrap decodes to the span's raw text.
C13_CodeSpanLiteral ==
    ipc = "done" =>
      LET bodies == MonospaceBodies(imarkup)
          spans == CodeSpans(inode.kids)
      IN /\ Len(bodies) = Len(spans)
         /\ \A i \in 1..Len(bodies) :
              /\ \A j \in 1..Len(bodies[i]) : bodies[i][j] \notin {"<", ">"}
              /\ DecodeEntities(bodies[i]) = Join(IterText(spans[i]))

\* C13's case: a code span holding a bold child and a link comes out as
\* one wrap around their text, with no bold marker and no href.
C13_Witness ==
    /\ ipc = "done"
    /\ inode.text = <<>>
    /\ Len(inode.kids) = 1
    /\ inode.kids[1].tag = "code"
    /\ Len(inode.kids[1].kids) = 2
    /\ inode.kids[1].kids[1].tag = "b"
    /\ inode.kids[1].kids[2].tag = "a"
    /\ imarkup = FONT_OPEN \o <<"x", "y">> \o LT \o <<"w">> \o FONT_CLOSE

(***************************************************************************)
(* BlockRenderer applied to block elements                                 *)
(***************************************************************************)

\* How many children a p, span or div element has at most.
MaxKids == 2

\* How many children a ul or ol element has at most.
MaxItems == 3

\* How many rows a table has, and how many cells a row, at most.
MaxRows == 2

MaxCells == 2

Leaf(tag, text) == Node(tag, NoAttrib, text, <<>>, <<>>)

ParagraphTexts ==
    { <<>>, <<" ">>, <<"a", "&">>, TWO_DOLLARS, <<"$", "$", "$">>,
      <<" ", "$", "$", "a", "$", "$", " ">> }

ParagraphKids ==
    { Leaf("br", <<>>),
      Node("br", NoAttrib, <<>>, <<>>, <<" ">>),
      Node("a", Attr("href", <<"u">>), <<>>, <<>>, <<>>),
      Leaf("a", <<>>),
      Node("b", NoAttrib, <<"x">>, <<>>, TWO_DOLLARS),
      Leaf("code", <<"<">>),
      Leaf("em", <<>>),
      Leaf("i", TWO_DOLLARS) }

ParagraphElements ==
    { Node(t, NoAttrib, x, ks, <<>>) :
        t \in {"p", "span", "div", "P"}, x \in ParagraphTexts,
        ks \in SeqsUpTo(ParagraphKids, MaxKids) }

ListKids ==
    { Leaf("li", <<"a">>), Leaf("li", <<>>), Leaf("li", <<"b">>),
      Leaf("li", <<" ">>),
      Node("li", NoAttrib, <<>>, <<Leaf("br", <<>>)>>, <<>>),
      Leaf("p", <<"c">>) }

StartAttribs ==
    { NoAttrib } \cup
    { Attr("start", v) :
        v \in { <<>>, <<"a", "b", "c">>, <<"5">>, <<"-", "3">>, <<" ", "7", " ">>,
                <<"1", ".", "5">>, <<"1", "_", "0">> } }

ListElements ==
    { Node(t, a, <<>>, ks, <<>>) :
        t \in {"ul", "ol"}, a \in StartAttribs, ks \in SeqsUpTo(ListKids, MaxItems) }
      \cup { Node("OL", Attr("start", <<"a", "b", "c">>), <<>>, <<k>>, <<>>) :
               k \in ListKids }

OtherElements ==
    { Node(t, NoAttrib, x, <<>>, <<>>) :
        t \in {"h1", "h2", "h3", "pre", "code", "blockquote", "hr"},
        x \in {<<>>, <<"a", "<">>, <<" ", "a", " ", "\n", "b", " ", "\n">>} }
      \cup { Node("table", NoAttrib, <<>>, rows, <<>>) :
               rows \in SeqsUpTo(
                 { Node("tr", NoAttrib, <<>>, cells, <<>>) :
                     cells \in SeqsUpTo({Leaf("td", <<>>), Leaf("td", <<"a", "<">>)},
                                        MaxCells) },
                 MaxRows) }

\* pre elements as a fenced block arrives: the text inside a code child, and
\* one with text of its own around a child.
PreElements ==
    { Node("pre", NoAttrib, <<>>, <<Leaf("code", x)>>, <<>>) :
        x \in { <<"a", " ", "\n", "b", "\n">>,
                <<" ", "\n", "a", "\n">>,
                <<"a", "\n", "b">>,
                <<"\n", " ", "\n">> } }
      \cup { Node("pre", NoAttrib, <<"a", " ">>,
                  <<Node("span", NoAttrib, <<"b">>, <<>>, <<" ", "c", "\n">>)>>, <<>>) }

BlockElements == ParagraphElements \cup ListElements \cup OtherElements \cup PreElements

BlockInit ==
    /\ elem \in BlockElements
    /\ bfont \in {PDF_FONT_NAME, FALLBACK_FONT}
    /\ flowables = <<>>
    /\ bpc = "call"
    /\ FontStart /\ InlineOff /\ AsmOff /\ ExportOff /\ StoreOff

RenderBlock ==
    /\ bpc = "call"
    /\ IF ElementRaises(elem)
         THEN bpc' = "raised" /\ flowables' = flowables
         ELSE /\ flowables' = ElementToFlowables(elem, BuildPdfStyles(bfont), bfont)
              /\ bpc' = "done"
    /\ UNCHANGED <<elem, bfont, fontVars, inlineVars, asmVars, exportVars, storeVars>>

SpecBlock == BlockInit /\ [][RenderBlock]_vars

(***************************************************************************)
(* Claims about the BlockRenderer                                          *)
(***************************************************************************)

IsParagraphTag(node) == Lower(node.tag) \in {"p", "span", "div"}

IsListTag(node) == Lower(node.tag) \in {"ul", "ol"}

BodyOf(font_name) == BuildPdfStyles(font_name)["Body"]

CodeOf(font_name) == BuildPdfStyles(font_name)["Code"]

ListBodyOf(font_name) == BuildPdfStyles(font_name)["ListBody"]

\* C7 (as claimed): a p, span or div element whose raw concatenated text is
\* empty gives exactly one spacer and no paragraph.
C7_EmptyRawTextSpacer ==
    (bpc = "done" /\ IsParagraphTag(elem) /\ Join(IterText(elem)) = <<>>) =>
      flowables = <<Spacer(1, 6)>>

\* C7 (amended): a p, span or div element gives exactly one spacer and no
\* paragraph exactly when its trimmed inline markup is empty; when its raw
\* text is empty and its markup is not (a br child, an empty emphasis, a
\* link with an href and no text) it gives one Body paragraph holding that
\* markup.
C7_EmptyMarkupSpacer ==
    (bpc = "done" /\ IsParagraphTag(elem)) =>
      LET markup == Strip(InlineMarkup(elem)) IN
      /\ markup = <<>> <=> flowables = <<Spacer(1, 6)>>
      /\ (Strip(Join(IterText(elem))) = <<>> /\ markup # <<>>) =>
           flowables = <<Paragraph(markup, BodyOf(bfont))>>

\* C7's case: a paragraph whose only content is a br child.
C7_Witness ==
    /\ bpc = "done"
    /\ elem = Node("p", NoAttrib, <<>>, <<Leaf("br", <<>>)>>, <<>>)
    /\ flowables = <<Paragraph(BR, BodyOf(bfont))>>

\* C8: for a p, span or div element with non-empty (trimmed) raw text: when
\* the raw text starts and ends with "$$" and holds at least two "$$", the
\* output is one preformatted unit in the Code style holding the raw text;
\* in every other case it is one Body paragraph holding the inline markup.
C8_FormulaOrParagraph ==
    LET raw == Strip(Join(IterText(elem))) IN
    (bpc = "done" /\ IsParagraphTag(elem) /\ raw # <<>>) =>
      IF /\ Len(raw) >= 2
         /\ SubSeq(raw, 1, 2) = <<"$", "$">>
         /\ SubSeq(raw, Len(raw) - 1, Len(raw)) = <<"$", "$">>
         /\ Count(raw, <<"$", "$">>) >= 2
        THEN flowables = <<Preformatted(raw, CodeOf(bfont))>>
        ELSE flowables = <<Paragraph(Strip(InlineMarkup(elem)), BodyOf(bfont))>>

\* C8's case: "$$", a bold child "x" and the tail "$$": the formula is
\* kept as raw text, the bold tag is not rendered.
C8_Witness ==
    /\ bpc = "done"
    /\ elem = Node("p", NoAttrib, TWO_DOLLARS,
                   <<Node("b", NoAttrib, <<"x">>, <<>>, TWO_DOLLARS)>>, <<>>)
    /\ flowables = <<Preformatted(<<"$", "$", "x", "$", "$">>, CodeOf(bfont))>>

\* The direct li children whose trimmed text (their inline markup,
\* trimmed) is not empty.
SurvivingItems(node) ==
    SelectSeq(node.kids, LAMBDA k : k.tag = "li" /\ Strip(InlineMarkup(k)) # <<>>)

\* C9: the list unit of a ul or ol element holds exactly the direct li
\* children whose trimmed text is not empty, in document order; with at
\* least one such item the output is the list unit and one spacer, with
\* none it is empty.
C9_ListItems ==
    (bpc = "done" /\ IsListTag(elem)) =>
      LET kept == SurvivingItems(elem) IN
      IF kept = <<>> THEN flowables = <<>>
      ELSE /\ Len(flowables) = 2
           /\ flowables[1].kind = "ListFlowable"
           /\ flowables[2] = Spacer(1, 6)
           /\ Len(flowables[1].items) = Len(kept)
           /\ \A i \in 1..Len(kept) :
                flowables[1].items[i] =
                  ListItem(Paragraph(Strip(InlineMarkup(kept[i])), ListBodyOf(bfont)))

\* C9's case: the items "a", "", "b" give the two items a and b.
C9_Witness ==
    /\ bpc = "done"
    /\ elem.tag = "ul"
    /\ elem.kids = <<Leaf("li", <<"a">>), Leaf("li", <<>>), Leaf("li", <<"b">>)>>
    /\ Len(flowables) = 2
    /\ Len(flowables[1].items) = 2
    /\ flowables[1].items[1].flowable.text = <<"a">>
    /\ flowables[1].items[2].flowable.text = <<"b">>

\* What Python's int() makes of the start values drawn: the number, or 1
\* where int() raises ValueError or the attribute is empty.
ExpectedStart(v) ==
    CASE v = <<"5">> -> 5
      [] v = <<"-", "3">> -> 0 - 3
      [] v = <<" ", "7", " ">> -> 7
      [] v = <<"1", "_", "0">> -> 10
      [] v \in {<<>>, <<"a", "b", "c">>, <<"1", ".", "5">>} -> 1

\* C10: an ol element with a surviving item numbers from the integer value
\* of its start attribute, and from 1 when the attribute is absent, empty
\* or not an integer; no start value makes the renderer raise; a ul element
\* has no start number.
C10_ListStart ==
    /\ bpc # "raised"
    /\ (bpc = "done" /\ IsListTag(elem) /\ SurvivingItems(elem) # <<>>) =>
         IF Lower(elem.tag) = "ol"
           THEN flowables[1].start =
                  <<IF HasAttr(elem, "start") THEN ExpectedStart(elem.attrib["start"])
                    ELSE 1>>
           ELSE flowables[1].start = <<>>

\* C10's case: an ol with start="abc" and an item numbers from 1.
C10_Witness ==
    /\ bpc = "done"
    /\ elem.tag = "ol"
    /\ HasAttr(elem, "start")
    /\ elem.attrib["start"] = <<"a", "b", "c">>
    /\ Len(flowables) = 2
    /\ flowables[1].start = <<1>>
    /\ flowables[1].bulletType = "1"

RECURSIVE SplitLines(_)
\* The lines of a text: the runs between its newline characters.
SplitLines(text) ==
    LET RECURSIVE FirstNewline(_)
        FirstNewline(i) ==
          IF i > Len(text) THEN 0
          ELSE IF text[i] = "\n" THEN i ELSE FirstNewline(i + 1)
        n == FirstNewline(1)
    IN IF n = 0 THEN <<text>>
       ELSE <<SubSeq(text, 1, n - 1)>> \o SplitLines(SubSeq(text, n + 1, Len(text)))

RECURSIVE DropLeadingBlank(_)
DropLeadingBlank(lines) ==
    IF lines # <<>> /\ Head(lines) = <<>> THEN DropLeadingBlank(Tail(lines)) ELSE lines

RECURSIVE DropTrailingBlank(_)
DropTrailingBlank(lines) ==
    IF lines # <<>> /\ lines[Len(lines)] = <<>>
      THEN DropTrailingBlank(SubSeq(lines, 1, Len(lines) - 1))
      ELSE lines

RECURSIVE TrimLines(_)
TrimLines(lines) ==
    IF lines = <<>> THEN <<>>
    ELSE <<RStripOf(Head(lines), Whitespace)>> \o TrimLines(Tail(lines))

\* The descendant text of a pre element with every line right-trimmed and
\* the leading and trailing blank lines removed.
TrimmedPreText(node) ==
    JoinWith(<<"\n">>,
             DropTrailingBlank(DropLeadingBlank(TrimLines(SplitLines(Join(IterText(node)))))))

\* C11 (as claimed): a pre element gives exactly one preformatted unit in
\* the Code style; its text is the element's descendant text with every
\* line right-trimmed and the leading and trailing blank lines removed, or
\* a single space when that is empty.
C11_PreLinesTrimmed ==
    (bpc = "done" /\ Lower(elem.tag) = "pre") =>
      flowables = << Preformatted(IF TrimmedPreText(elem) = <<>> THEN <<" ">>
                                  ELSE TrimmedPreText(elem),
                                  CodeOf(bfont)) >>

\* The paragraphs of the rows of a table that have a non-empty cell.
RowParagraphs(node, font_name) ==
    MapRowParagraphs(MapRows(SelectKids(node, "tr")), BuildPdfStyles(font_name))

\* C12 (as claimed): a table element gives one escaped Body paragraph for
\* each tr child with a non-empty cell, in row order, and after them a
\* spacer exactly when there is such a paragraph: a table whose rows are
\* all empty gives no units.
C12_TableRows ==
    (bpc = "done" /\ Lower(elem.tag) = "table") =>
      /\ flowables = RowParagraphs(elem, bfont)
                       \o (IF RowParagraphs(elem, bfont) # <<>>
                             THEN <<Spacer(1, 6)>> ELSE <<>>)
      /\ (\A i \in 1..Len(elem.kids) :
             \A j \in 1..Len(elem.kids[i].kids) :
               Join(IterText(elem.kids[i].kids[j])) = <<>>) => flowables = <<>>

(***************************************************************************)
(* The assembler applied to scores and feedback inputs                     *)
(***************************************************************************)

\* How many top-level children the feedback tree has at most.
MaxTop == 2

Scores == { <<>>, << <<>> >>, << <<"9", "5">> >>, << <<"<", "5">> >>, << <<" ">> >> }

BlankTexts == { <<>>, <<" ">> }

NonBlankTexts == { <<"a", "&", "<">>, <<"<", "b", "r", ">">> }

\* Top-level children: a heading, a paragraph, an empty paragraph (a
\* spacer), a list without items (nothing), a list with one item, an
\* unknown tag.
TopElements ==
    { Leaf("h2", <<"R">>), Leaf("p", <<"G", "&">>), Leaf("p", <<>>),
      Leaf("ul", <<>>),
      Node("ol", NoAttrib, <<>>, <<Leaf("li", <<"a">>)>>, <<>>),
      Leaf("hr", <<>>) }

Feedbacks ==
    { [text |-> x, doc |-> "blank", root |-> <<>>] : x \in BlankTexts \cup NonBlankTexts }
      \cup { [text |-> x, doc |-> "malformed", root |-> <<>>] : x \in NonBlankTexts }
      \cup { [text |-> x, doc |-> "tree", root |-> r] :
               x \in NonBlankTexts, r \in SeqsUpTo(TopElements, MaxTop) }

\* _create_estimation_pdf is called with a score and a feedback text; the
\* font name is what _ensure_pdf_font returns (SpecFont).
Init ==
    /\ score \in Scores
    /\ feedback \in Feedbacks
    /\ font \in {PDF_FONT_NAME, FALLBACK_FONT}
    /\ story = <<>>
    /\ apc = "call"
    /\ FontStart /\ InlineOff /\ BlockOff /\ ExportOff /\ StoreOff

CreateEstimationPdf ==
    /\ apc = "call"
    /\ IF feedback.doc = "malformed" /\ ~ParseErrorCaught
         THEN apc' = "raised" /\ story' = story
         ELSE /\ story' = EstimationStory(score, feedback, font)
              /\ apc' = "built"
    /\ UNCHANGED <<score, feedback, font, fontVars, inlineVars, blockVars, exportVars, storeVars>>

Next == CreateEstimationPdf

Spec == Init /\ [][Next]_vars

(***************************************************************************)
(* Claims about the assembler                                              *)
(***************************************************************************)

HasScore == score # <<>> /\ score[1] # <<>>

HeaderLen == IF HasScore THEN 7 ELSE 6

\* The first units of the story: title, spacer, timestamp line, the score
\* line when there is a non-empty score, spacer, feedback label, spacer.
HeaderInOrder ==
    LET st == BuildPdfStyles(font)
        k == IF HasScore THEN 1 ELSE 0
    IN /\ Len(story) >= HeaderLen
       /\ story[1] = Paragraph(TITLE_TEXT, st["Heading1"])
       /\ story[1].style.name = "Heading1"
       /\ story[2] = Spacer(1, 10)
       /\ story[3] = Paragraph(DATE_PREFIX \o TIMESTAMP, st["Meta"])
       /\ story[3].style.name = "Meta"
       /\ HasScore =>
            /\ story[4].kind = "Paragraph"
            /\ story[4].style = st["Meta"]
            /\ story[4].text = SCORE_PREFIX \o B_OPEN \o EscapeXml(score[1]) \o B_CLOSE
       /\ story[4 + k] = Spacer(1, 12)
       /\ story[5 + k] = Paragraph(FEEDBACK_LABEL, st["Heading2"])
       /\ story[5 + k].style.name = "Heading2"
       /\ story[6 + k] = Spacer(1, 6)

FeedbackSection == SubSeq(story, HeaderLen + 1, Len(story))

\* The units of every top-level child of the feedback tree, in document
\* order.
BlockOutput ==
    Join([i \in 1..Len(feedback.root) |->
            ElementToFlowables(feedback.root[i], BuildPdfStyles(font), font)])

TreeSection ==
    IF BlockOutput = <<>>
      THEN FeedbackSection = <<Paragraph(NO_FEEDBACK_TEXT, BodyOf(font))>>
      ELSE FeedbackSection = BlockOutput

\* C1 (as claimed): for every score and every feedback input the story is
\* the header units in order, followed by the block units of the top-level
\* children of the feedback tree, or by the one "no feedback" paragraph
\* exactly when there are no block units.
C1_StoryForEveryInput ==
    apc = "built" => (HeaderInOrder /\ TreeSection)

\* C1 (amended): the same, for every score and every feedback input whose
\* markup-to-tree parse does not fail.
C1_StoryWhenParsed ==
    (apc = "built" /\ feedback.doc # "malformed") => (HeaderInOrder /\ TreeSection)

\* C1's case: score "95", a heading and a paragraph.
C1_Witness ==
    /\ apc = "built"
    /\ score = << <<"9", "5">> >>
    /\ feedback.doc = "tree"
    /\ feedback.root = <<Leaf("h2", <<"R">>), Leaf("p", <<"G", "&">>)>>
    /\ Len(story) = 9
    /\ story[8] = Paragraph(<<"R">>, BuildPdfStyles(font)["Heading2"])
    /\ story[9] = Paragraph(<<"G">> \o AMP, BodyOf(font))

\* C2: when the markup-to-tree parse fails the render does not raise; the
\* story is the header units followed by exactly one Body paragraph, whose
\* text is the input with "&", "<" and ">" escaped.
C2_MalformedDegrades ==
    /\ apc # "raised"
    /\ (apc = "built" /\ feedback.doc = "malformed") =>
         /\ HeaderInOrder
         /\ Len(FeedbackSection) = 1
         /\ FeedbackSection[1].kind = "Paragraph"
         /\ FeedbackSection[1].style = BodyOf(font)
         /\ DecodeMarkup(FeedbackSection[1].text) = feedback.text
         /\ \A i \in 1..Len(FeedbackSection[1].text) :
              FeedbackSection[1].text[i] \notin {"<", ">"}

\* C2's case: the input "<br>" does not parse and comes out escaped.
C2_Witness ==
    /\ apc = "built"
    /\ feedback.doc = "malformed"
    /\ feedback.text = <<"<", "b", "r", ">">>
    /\ HasScore
    /\ story[8] = Paragraph(LT \o <<"b", "r">> \o GT, BodyOf(font))

(***************************************************************************)
(* export_estimation_result                                                *)
(***************************************************************************)

\* JSON values as request.get_json returns them: None, a number, a string,
\* a list (num is its length); "absent" is a key the object does not have.
Json(type, str, num) == [type |-> type, str |-> str, num |-> num]

JAbsent == Json("absent", <<>>, 0)

JNull == Json("null", <<>>, 0)

JNumber(n) == Json("number", <<>>, n)

JString(x) == Json("string", x, 0)

JList(n) == Json("list", <<>>, n)

\* Python truth of a value: None, 0, "" and [] are false.
Truthy(v) ==
    CASE v.type = "string" -> v.str # <<>>
      [] v.type \in {"number", "list"} -> v.num # 0
      [] OTHER -> FALSE

\* str(value) of the numbers and lists drawn
Str(v) ==
    CASE v.type = "string" -> v.str
      [] v.type = "number" /\ v.num = 0 -> <<"0">>
      [] v.type = "number" /\ v.num = 5 -> <<"5">>
      [] v.type = "list" -> <<"[", "]">>

\* A request body: not JSON at all, a JSON document that is not an object,
\* or an object with its feedback and score keys.
InvalidBody == [kind |-> "invalid", value |-> JAbsent, fb |-> JAbsent, sc |-> JAbsent]

ValueBody(v) == [kind |-> "value", value |-> v, fb |-> JAbsent, sc |-> JAbsent]

ObjectBody(fb, sc) == [kind |-> "object", value |-> JAbsent, fb |-> fb, sc |-> sc]

\* Line 473: payload.get("feedback") where payload is get_json() or {}
PayloadGet(req, key) ==
    IF req.kind = "object" THEN (IF key = "feedback" THEN req.fb ELSE req.sc)
    ELSE JAbsent

\* Line 473: get_json(force=True) raises BadRequest for a body that is not
\* JSON
GetJsonRaises(req) == req.kind = "invalid"

\* Lines 473-474: .get on a payload that is no dict, .strip on a feedback
\* that is no string: AttributeError, which nothing catches
HandlerRaises(req) ==
    \/ req.kind = "value" /\ Truthy(req.value)
    \/ Truthy(PayloadGet(req, "feedback")) /\ PayloadGet(req, "feedback").type # "string"

\* Line 474: (payload.get("feedback") or "").strip()
FeedbackText(req) ==
    IF Truthy(PayloadGet(req, "feedback")) THEN Strip(PayloadGet(req, "feedback").str)
    ELSE <<>>

\* Line 479: str(score).strip() if score is not None else ""
ScoreText(req) ==
    IF PayloadGet(req, "score").type \in {"absent", "null"} THEN <<>>
    ELSE Strip(Str(PayloadGet(req, "score")))

BadRequest == [status |-> 400, error |-> "Bad Request", pdf |-> <<>>]

InternalServerError == [status |-> 500, error |-> "Internal Server Error", pdf |-> <<>>]

FeedbackIsEmpty == [status |-> 400, error |-> "Feedback is empty", pdf |-> <<>>]

SendFile(pdf) == [status |-> 200, error |-> "", pdf |-> pdf]

FeedbackValues ==
    { JAbsent, JNull, JString(<<>>), JString(<<" ">>),
      JString(<<" ", "a", "&", "<", " ">>), JString(<<"<", "b", "r", ">">>),
      JNumber(0), JNumber(5), JList(1) }

ScoreValues == { JAbsent, JNull, JNumber(5), JString(<<" ", "9", " ">>), JString(<<>>) }

Requests ==
    { InvalidBody }
      \cup { ValueBody(v) : v \in {JNull, JNumber(0), JNumber(5), JString(<<"x">>), JList(1)} }
      \cup { ObjectBody(fb, sc) : fb \in FeedbackValues, sc \in ScoreValues }

\* What the markdown converter and the XML parser can make of a feedback
\* text: nothing, a parse error, or a tree of at most one element.
ParsedAs(text) == { f \in Feedbacks : f.text = text /\ Len(f.root) <= 1 }

\* The font directories of the server: no font file; every variant in the
\* first directory; the bold variant alone in the second.
ExportFiles ==
    { [c \in Candidates |-> "absent"],
      [c \in Candidates |-> IF c[2] = 1 THEN "ok" ELSE "absent"],
      [c \in Candidates |-> IF c = <<2, 2>> THEN "ok" ELSE "absent"] }

ExportInit ==
    /\ request \in Requests
    /\ response = NoResponse
    /\ epc = "recv"
    /\ registry = {}
    /\ regCount = [n \in FontNames |-> 0]
    /\ fs \in ExportFiles
    /\ pc = [t \in Callers |-> "idle"]
    /\ entry = [t \in Callers |-> {}]
    /\ snap = [t \in Callers |-> {}]
    /\ vi = [t \in Callers |-> 1]
    /\ di = [t \in Callers |-> 1]
    /\ result = [t \in Callers |-> ""]
    /\ styles = [t \in Callers |-> NoStyles]
    /\ InlineOff /\ BlockOff /\ AsmOff /\ StoreOff

\* Lines 473-479: the body is read and checked; an accepted request calls
\* _create_estimation_pdf with the trimmed score and feedback.
ExportReceive ==
    /\ epc = "recv"
    /\ IF GetJsonRaises(request)
         THEN /\ response' = BadRequest
              /\ epc' = "done"
              /\ UNCHANGED asmVars
       ELSE IF HandlerRaises(request)
         THEN /\ response' = InternalServerError
              /\ epc' = "done"
              /\ UNCHANGED asmVars
       ELSE IF FeedbackText(request) = <<>>
         THEN /\ response' = FeedbackIsEmpty
              /\ epc' = "done"
              /\ UNCHANGED asmVars
       ELSE /\ score' = <<ScoreText(request)>>
            /\ feedback' \in ParsedAs(FeedbackText(request))
            /\ apc' = "call"
            /\ epc' = "render"
            /\ UNCHANGED <<response, font, story>>
    /\ UNCHANGED <<request, fontVars, inlineVars, blockVars, storeVars>>

\* _create_estimation_pdf, lines 436-437: the font is resolved and the
\* styles are built.
ExportFont ==
    /\ epc = "render"
    /\ \/ EnsureStart(1)
       \/ SkipVariant(1)
       \/ Probe(1)
       \/ EnsureFinish(1)
       \/ BuildStyles(1)

\* _create_estimation_pdf, lines 448-469, and lines 480-487: the story is
\* built and the document is sent.
ExportRender ==
    /\ epc = "render"
    /\ pc[1] = "styled"
    /\ font' = result[1]
    /\ story' = EstimationStory(score, feedback, result[1])
    /\ apc' = "built"
    /\ response' = SendFile(story')
    /\ epc' = "done"
    /\ UNCHANGED <<request, score, feedback, fontVars, inlineVars, blockVars, storeVars>>

\* The next request arrives: the locals of the last one are gone, the font
\* registry stays.
ExportEnd ==
    /\ epc = "done"
    /\ request' \in Requests
    /\ response' = NoResponse
    /\ epc' = "recv"
    /\ score' = <<>>
    /\ feedback' = [text |-> <<>>, doc |-> "blank", root |-> <<>>]
    /\ font' = ""
    /\ story' = <<>>
    /\ apc' = "off"
    /\ pc' = [pc EXCEPT ![1] = "idle"]
    /\ entry' = [entry EXCEPT ![1] = {}]
    /\ snap' = [snap EXCEPT ![1] = {}]
    /\ vi' = [vi EXCEPT ![1] = 1]
    /\ di' = [di EXCEPT ![1] = 1]
    /\ result' = [result EXCEPT ![1] = ""]
    /\ styles' = [styles EXCEPT ![1] = NoStyles]
    /\ UNCHANGED <<registry, regCount, fs, inlineVars, blockVars, storeVars>>

ExportNext == ExportReceive \/ ExportFont \/ ExportRender \/ ExportEnd

SpecExport == ExportInit /\ [][ExportNext]_vars

(***************************************************************************)
(* Claims about the export request                                         *)
(***************************************************************************)

\* The feedback of the request is missing, empty or only whitespace.
FeedbackMissing(req) ==
    /\ req.kind = "object"
    /\ \/ req.fb.type \in {"absent", "null"}
       \/ req.fb.type = "string" /\ Strip(req.fb.str) = <<>>

\* A request with missing, empty or blank feedback is answered with
\* 'Feedback is empty' and never reaches the renderer: no call of
\* _create_estimation_pdf, no font lookup, no story, no document.
RejectedBeforeRender ==
    FeedbackMissing(request) =>
      /\ apc = "off"
      /\ story = <<>>
      /\ pc[1] = "idle"
      /\ entry[1] = {}
      /\ epc = "done" => response = FeedbackIsEmpty

\* While such a request is handled no font is registered.
NoFontRegistered ==
    FeedbackMissing(request) /\ epc = "recv" =>
      registry' = registry /\ regCount' = regCount

\* Every response is the document or the 'Feedback is empty' rejection.
OnlyRejection ==
    epc = "done" => response.status = 200 \/ response = FeedbackIsEmpty

\* C14 (as claimed): a request whose feedback is missing, empty or only
\* whitespace is rejected with 'Feedback is empty' before the renderer is
\* called (no call of _create_estimation_pdf, no font registered, no
\* document), and this rejection is the only error outcome of the export.
C14_OnlyErrorIsEmptyFeedback ==
    /\ [](RejectedBeforeRender /\ OnlyRejection)
    /\ [][NoFontRegistered]_vars

\* The first half of C14 on its own, which the handler keeps.
C14_RejectedBeforeRender == []RejectedBeforeRender /\ [][NoFontRegistered]_vars

(***************************************************************************)
(* The conversation store (backend/storage.py): append_message             *)
(***************************************************************************)

\* How many messages each caller appends at most.
MaxAppends == 2

\* The turn a caller appends in its k-th call.
Turn(t, k) == [by |-> t, n |-> k]

\* An existing conversation without messages; every caller is about to
\* call append_message on it.
StoreInit ==
    /\ disk = File(<<>>)
    /\ conv = [t \in Callers |-> <<>>]
    /\ lock = 0
    /\ spc = [t \in Callers |-> "idle"]
    /\ returned = [t \in Callers |-> <<>>]
    /\ FontStart /\ InlineOff /\ BlockOff /\ AsmOff /\ ExportOff

\* load_conversation, lines 66-72, called at line 76 without the lock:
\* json.load raises on a file that a writer has opened and not yet written.
LoadConversation(t) ==
    /\ spc[t] = "idle"
    /\ IF disk.state = "whole"
         THEN /\ conv' = [conv EXCEPT ![t] = disk.messages]
              /\ spc' = [spc EXCEPT ![t] = "loaded"]
         ELSE /\ conv' = conv
              /\ spc' = [spc EXCEPT ![t] = "raised"]
    /\ UNCHANGED <<disk, lock, returned>>
    /\ UNCHANGED <<fontVars, inlineVars, blockVars, asmVars, exportVars>>

\* Lines 77-82: the turn is appended to the caller's own copy.
AppendTurn(t) ==
    /\ spc[t] = "loaded"
    /\ conv' = [conv EXCEPT ![t] = Append(@, Turn(t, Len(returned[t]) + 1))]
    /\ spc' = [spc EXCEPT ![t] = "appended"]
    /\ UNCHANGED <<disk, lock, returned>>
    /\ UNCHANGED <<fontVars, inlineVars, blockVars, asmVars, exportVars>>

\* save_conversation, line 61: `with _store_lock`
AcquireStoreLock(t) ==
    /\ spc[t] = "appended"
    /\ lock = 0
    /\ lock' = t
    /\ spc' = [spc EXCEPT ![t] = "locked"]
    /\ UNCHANGED <<disk, conv, returned>>
    /\ UNCHANGED <<fontVars, inlineVars, blockVars, asmVars, exportVars>>

\* Line 62: path.open("w") cuts the file to length zero.
OpenForWrite(t) ==
    /\ spc[t] = "locked"
    /\ disk' = [state |-> "truncated", messages |-> <<>>]
    /\ spc' = [spc EXCEPT ![t] = "opened"]
    /\ UNCHANGED <<conv, lock, returned>>
    /\ UNCHANGED <<fontVars, inlineVars, blockVars, asmVars, exportVars>>

\* Line 63: json.dump writes the caller's copy, and the file is closed.
Dump(t) ==
    /\ spc[t] = "opened"
    /\ disk' = File(conv[t])
    /\ spc' = [spc EXCEPT ![t] = "dumped"]
    /\ UNCHANGED <<conv, lock, returned>>
    /\ UNCHANGED <<fontVars, inlineVars, blockVars, asmVars, exportVars>>

\* The end of the `with _store_lock` block.
ReleaseStoreLock(t) ==
    /\ spc[t] = "dumped"
    /\ lock = t
    /\ lock' = 0
    /\ spc' = [spc EXCEPT ![t] = "saved"]
    /\ UNCHANGED <<disk, conv, returned>>
    /\ UNCHANGED <<fontVars, inlineVars, blockVars, asmVars, exportVars>>

\* Lines 84-91: the log entry is written and the turn is returned.
ReturnTurn(t) ==
    /\ spc[t] = "saved"
    /\ returned' = [returned EXCEPT ![t] = Append(@, Turn(t, Len(@) + 1))]
    /\ spc' = [spc EXCEPT ![t] =
                 IF Len(returned[t]) + 1 < MaxAppends THEN "idle" ELSE "done"]
    /\ conv' = [conv EXCEPT ![t] = <<>>]
    /\ UNCHANGED <<disk, lock>>
    /\ UNCHANGED <<fontVars, inlineVars, blockVars, asmVars, exportVars>>

\* append_message, lines 75-91
AppendMessage(t) ==
    \/ LoadConversation(t)
    \/ AppendTurn(t)
    \/ AcquireStoreLock(t)
    \/ OpenForWrite(t)
    \/ Dump(t)
    \/ ReleaseStoreLock(t)
    \/ ReturnTurn(t)

\* The request threads of the server, interleaved at every step.
StoreNext == \E t \in Callers : AppendMessage(t)

SpecStore == StoreInit /\ [][StoreNext]_vars

(***************************************************************************)
(* Claims about the conversation store                                     *)
(***************************************************************************)

\* No call of append_message is under way.
StoreQuiet == \A t \in Callers : spc[t] \in {"idle", "done", "raised"}

Stored(turn) == \E i \in 1..Len(disk.messages) : disk.messages[i] = turn

\* C15 (as claimed): whatever the interleaving of the append_message calls,
\* once no call is under way the stored conversation holds the turn of
\* every call that returned.
C15_NoLostUpdate ==
    StoreQuiet =>
      \A t \in Callers : \A i \in 1..Len(returned[t]) : Stored(returned[t][i])

\* What the lock does give: one writer at a time between open and close.
StoreWritesExclusive ==
    \A t, u \in Callers :
      (t # u /\ spc[t] \in {"locked", "opened", "dumped"}) =>
        spc[u] \notin {"locked", "opened", "dumped"}

====
